---- MODULE Spec2Model ----
(***************************************************************************)
(* PGCite: SPARQL query construction and result extraction (src/main.rs).  *)
(*                                                                         *)
(* Text is modelled as a sequence of chunks.  In the escaper a chunk is a  *)
(* single character; in URLs a chunk is one lexical unit ("http", ":",     *)
(* "/", "entity", ...); in templates a chunk is a run of literal text.     *)
(***************************************************************************)
EXTENDS Integers, Sequences, FiniteSets, TLC

VARIABLES
  pc,       \* position of the running query operation
  op,       \* "get_authors" | "get_author_info" | "none"
  args,     \* arguments of the running operation
  query,    \* the query text built by the operation
  rows,     \* the bindings array make_request returned
  i,        \* index of the next row the map closure consumes
  acc,      \* records collected so far
  result,   \* Ok(the Vec returned to the caller), or NoValue
  sent,     \* the prefixed query text handed to the gateway
  resp,     \* what the gateway answered, or NoValue
  input,    \* argument(s) of a pure function under test
  output    \* its outcome, or NoValue while it has not run

vars == <<pc, op, args, query, rows, i, acc, result, sent, resp, input, output>>

progVars == <<pc, op, args, query, rows, i, acc, result, sent, resp>>
pureVars == <<input, output>>

\* ---------------------------------------------------------------- bounds
MaxLen == 4        \* longest string handed to escape_sparql
MaxTail == 4       \* chunks after the scheme/authority prefix of a URL
MaxNames == 2      \* longest list of names handed to get_values
MaxRows == 2       \* longest bindings array the gateway returns

\* ---------------------------------------------------------------- outcomes
NoValue == [t |-> "none"]
Panic == [t |-> "panic"]
Err(e) == [t |-> "err", e |-> e]
Ok(v) == [t |-> "ok", v |-> v]

\* ---------------------------------------------------------------- escaper
DQ == "\""
SQ == "'"
BS == "\\"

\* a class that forgets the backslash
ClassWithoutBackslash == {DQ, SQ}

\* the character class of the pattern (["'\\])
SPARQL_METACHARACTERS == {DQ, SQ, BS}

\* a template that drops the escaping backslash
ReplacementGroupOnly == <<"$1">>

\* the replacement template r"\$1": a literal backslash, then capture group 1
Replacement == <<BS, "$1">>

\* an expansion that leaves the group reference unexpanded
ExpandLiteral(rep, cap) == rep

\* Regex expansion of the replacement template for one match
Expand(rep, cap) == [k \in 1..Len(rep) |-> IF rep[k] = "$1" THEN cap ELSE rep[k]]

RECURSIVE replace_all(_, _, _)
\* Regex::replace_all: leftmost non-overlapping matches, text between kept
replace_all(class, str, rep) ==
  IF str = <<>> THEN <<>>
  ELSE IF Head(str) \in class
       THEN Expand(rep, Head(str)) \o replace_all(class, Tail(str), rep)
       ELSE <<Head(str)>> \o replace_all(class, Tail(str), rep)

escape_sparql(str) == replace_all(SPARQL_METACHARACTERS, str, Replacement)

\* ---------------------------------------------------------------- helpers
RECURSIVE SeqsUpTo(_, _)
SeqsUpTo(S, n) ==
  IF n = 0 THEN {<<>>}
  ELSE LET shorter == SeqsUpTo(S, n - 1)
       IN shorter \cup {Append(s, x) : s \in {t \in shorter : Len(t) = n - 1}, x \in S}

Chars == {"a", DQ, SQ, BS}
EscapeInputs == SeqsUpTo(Chars, MaxLen)

\* ---------------------------------------------------------------- search query
TQ == <<DQ, DQ, DQ>>

AuthorsQueryHead ==
  <<"\nSELECT\n  ?id          # Ex. Q42\n  ?name        # Ex. Douglas Adams\n  ?description # Ex. English author and humourist (1952-2001)\nWHERE {\n  VALUES ?name {\n    ">>

AuthorsQueryTail ==
  <<"@en\n  }\n\n  ?id wdt:P31 wd:Q5;                 # The ID of an instance of human,\n    rdfs:label ?name;                # ...whose entity label matches ?name,\n    schema:description ?description. # ...and get their single-sentence entity description\n\n  FILTER((LANG(?name)) = \"en\")        # Only names in English\n  FILTER((LANG(?description)) = \"en\") # Only descriptions in English\n}\n">>

\* the format! of get_authors
AuthorsQuery(name) ==
  AuthorsQueryHead \o TQ \o escape_sparql(name) \o TQ \o AuthorsQueryTail

\* ---------------------------------------------------------------- escaper spec
InitProgIdle ==
  /\ pc = "idle" /\ op = "none" /\ args = NoValue /\ query = <<>>
  /\ rows = <<>> /\ i = 0 /\ acc = <<>> /\ result = NoValue
  /\ sent = <<>> /\ resp = NoValue

InitEscape ==
  /\ InitProgIdle
  /\ input \in {[fn |-> f, str |-> s] : f \in {"escape_sparql", "search_query"}, s \in EscapeInputs}
  /\ output = NoValue

CallEscapeSparql ==
  /\ input.fn = "escape_sparql" /\ output = NoValue
  /\ output' = Ok(escape_sparql(input.str))
  /\ UNCHANGED <<progVars, input>>

BuildSearchQuery ==
  /\ input.fn = "search_query" /\ output = NoValue
  /\ output' = Ok(AuthorsQuery(input.str))
  /\ UNCHANGED <<progVars, input>>

NextEscape == CallEscapeSparql \/ BuildSearchQuery

SpecEscape == InitEscape /\ [][NextEscape]_vars

\* ---------------------------------------------------------------- escaper claims
Metacharacters == {"\"", "'", "\\"}

\* number of metacharacters among the first n characters of s
MetaCount(s, n) == Cardinality({k \in 1..n : s[k] \in Metacharacters})

\* where the k-th input character lands when every metacharacter before it,
\* and itself if it is one, has gained one character
Pos(s, k) == k + MetaCount(s, k)

EscapeDone == input.fn = "escape_sparql" /\ output.t = "ok"

\* C2: escape_sparql returns the input with each double quote, single quote
\* and backslash replaced by a backslash followed by that character, all other
\* characters and the order kept; an input without them is returned unchanged.
C2_EscapeReplacesEachMetachar ==
  EscapeDone =>
    LET s == input.str
        o == output.v
    IN /\ Len(o) = Len(s) + MetaCount(s, Len(s))
       /\ \A k \in 1..Len(s) :
            /\ o[Pos(s, k)] = s[k]
            /\ s[k] \in Metacharacters => o[Pos(s, k) - 1] = "\\"
       /\ MetaCount(s, Len(s)) = 0 => o = s

C2_Witness ==
  /\ EscapeDone
  /\ input.str = <<"a", "\"", "\\", "'">>
  /\ output.v = <<"a", "\\", "\"", "\\", "\\", "\\", "'">>

\* C3 as stated: every metacharacter occurring in the output is immediately
\* preceded by a backslash, and the number of metacharacter occurrences so
\* preceded equals the number of metacharacters of the input.
C3_EveryOutputMetacharPreceded ==
  EscapeDone =>
    LET s == input.str
        o == output.v
        preceded == {j \in 2..Len(o) : o[j] \in Metacharacters /\ o[j - 1] = "\\"}
    IN /\ \A j \in 1..Len(o) : o[j] \in Metacharacters => j \in preceded
       /\ Cardinality(preceded) = MetaCount(s, Len(s))

\* C3 (amended): every metacharacter carried over from the input is
\* immediately preceded by an inserted backslash, the inserted characters are
\* all backslashes, and there are as many of them as metacharacters in the input.
C3_CarriedMetacharPrecededByInserted ==
  EscapeDone =>
    LET s == input.str
        o == output.v
        carried == {Pos(s, k) : k \in 1..Len(s)}
        inserted == (1..Len(o)) \ carried
    IN /\ Len(o) >= Len(s)
       /\ Cardinality(inserted) = MetaCount(s, Len(s))
       /\ \A j \in inserted : o[j] = "\\" /\ j + 1 \in carried
       /\ \A k \in 1..Len(s) :
            s[k] \in Metacharacters =>
              /\ Pos(s, k) <= Len(o)
              /\ Pos(s, k) - 1 \in inserted
              /\ o[Pos(s, k)] = s[k]

C3_Witness ==
  /\ EscapeDone
  /\ input.str = <<"\\", "\\", "a">>
  /\ output.v = <<"\\", "\\", "\\", "\\", "a">>

RECURSIVE ScanBody(_)
\* read a string body left to right, a backslash consuming the next character
ScanBody(b) ==
  IF b = <<>> THEN "ok"
  ELSE IF Head(b) = "\\"
       THEN IF Len(b) = 1 THEN "dangling" ELSE ScanBody(SubSeq(b, 3, Len(b)))
       ELSE IF Head(b) \in {"\"", "'"} THEN "quote" ELSE ScanBody(Tail(b))

RECURSIVE FirstUnescapedTQ(_, _)
\* index of the first unescaped """ at or after position from, 0 if none
FirstUnescapedTQ(q, from) ==
  IF from + 2 > Len(q) THEN 0
  ELSE IF q[from] = "\\" THEN FirstUnescapedTQ(q, from + 2)
       ELSE IF SubSeq(q, from, from + 2) = <<"\"", "\"", "\"">> THEN from
            ELSE FirstUnescapedTQ(q, from + 1)

SearchQueryDone == input.fn = "search_query" /\ output.t = "ok"

\* C4: the text get_authors places between the opening """ and the closing
\* """@en holds no unescaped quote and no dangling backslash, so the closing
\* delimiter of the template is the first unescaped """ after the opening one.
C4_LiteralCannotTerminateEarly ==
  SearchQueryDone =>
    LET q == output.v
        first == Len(AuthorsQueryHead) + 4
        close == Len(q) - Len(AuthorsQueryTail) - 2
    IN /\ close >= first
       /\ SubSeq(q, first - 3, first - 1) = <<"\"", "\"", "\"">>
       /\ ScanBody(SubSeq(q, first, close - 1)) = "ok"
       /\ FirstUnescapedTQ(q, first) = close

C4_Witness ==
  /\ SearchQueryDone
  /\ input.str = <<"\"", "\"", "\"", "\\">>
  /\ FirstUnescapedTQ(output.v, Len(AuthorsQueryHead) + 4) = Len(AuthorsQueryHead) + 12

\* ---------------------------------------------------------------- Option
None == [t |-> "None"]
Some(v) == [t |-> "Some", v |-> v]

\* ---------------------------------------------------------------- URLs
SpecialSchemes == {"http", "https"}
Schemes == SpecialSchemes \cup {"mailto"}

RECURSIVE StripSlashes(_)
\* a special scheme ignores any run of slashes before the authority
StripSlashes(s) ==
  IF s # <<>> /\ Head(s) = "/" THEN StripSlashes(Tail(s)) ELSE s

RECURSIVE UpToSlash(_)
\* the chunks before the first "/"
UpToSlash(s) ==
  IF s = <<>> \/ Head(s) = "/" THEN <<>> ELSE <<Head(s)>> \o UpToSlash(Tail(s))

Url(scheme, has_host, host, path) ==
  [scheme |-> scheme, has_host |-> has_host, host |-> host, path |-> path]

\* Url::parse without a base URL
UrlParse(s) ==
  IF Len(s) < 2 \/ s[1] \notin Schemes \/ s[2] # ":"
  THEN Err("RelativeUrlWithoutBase")
  ELSE LET rest == SubSeq(s, 3, Len(s))
       IN IF s[1] \in SpecialSchemes
          THEN LET r == StripSlashes(rest)
                   host == UpToSlash(r)
                   after == SubSeq(r, Len(host) + 1, Len(r))
               IN IF host = <<>> THEN Err("EmptyHost")
                  ELSE Ok(Url(s[1], TRUE, host, IF after = <<>> THEN <<"/">> ELSE after))
          ELSE IF Len(rest) >= 2 /\ rest[1] = "/" /\ rest[2] = "/"
               THEN LET r == SubSeq(rest, 3, Len(rest))
                        host == UpToSlash(r)
                    IN Ok(Url(s[1], TRUE, host, SubSeq(r, Len(host) + 1, Len(r))))
               ELSE Ok(Url(s[1], FALSE, <<>>, rest))

\* Url::as_str
UrlAsStr(u) ==
  <<u.scheme, ":">> \o (IF u.has_host THEN <<"/", "/">> \o u.host ELSE <<>>) \o u.path

RECURSIVE Split(_)
\* str::split('/'): the pieces between slashes, at least one
Split(s) ==
  LET first == UpToSlash(s)
  IN IF Len(first) = Len(s) THEN <<first>>
     ELSE <<first>> \o Split(SubSeq(s, Len(first) + 2, Len(s)))

\* Url::path_segments: None unless the path starts with a slash
path_segments(u) ==
  IF u.path # <<>> /\ Head(u.path) = "/" THEN Some(Split(Tail(u.path))) ELSE None

\* a derivation that takes the first segment
get_first_segment(u) ==
  LET segs == path_segments(u)
  IN IF segs = None THEN Panic ELSE Ok(segs.v[1])

\* a derivation that falls back to the empty identifier
get_last_segment_or_default(u) ==
  LET segs == path_segments(u)
  IN IF segs = None THEN Ok(<<>>) ELSE Ok(segs.v[Len(segs.v)])

\* get_last_segment: the unwrap panics when there are no path segments
get_last_segment(u) ==
  LET segs == path_segments(u)
  IN IF segs = None THEN Panic ELSE Ok(segs.v[Len(segs.v)])

\* ---------------------------------------------------------------- records
PersonNew(name, description, id) ==
  LET seg == get_last_segment(id)
  IN IF seg = Panic THEN Panic
     ELSE Ok([name |-> name, description |-> description, id |-> seg.v, id_url |-> id])

FieldNew(label_id_url, label, value) ==
  LET parsed == UrlParse(label_id_url)
  IN IF parsed.t = "err" THEN parsed
     ELSE LET seg == get_last_segment(parsed.v)
          IN IF seg = Panic THEN Panic
             ELSE Ok([value |-> value, label |-> label, label_id |-> seg.v,
                      label_id_url |-> parsed.v])

\* ---------------------------------------------------------------- record spec
UrlPrefixes ==
  { <<>>, <<"http", ":">>, <<"mailto", ":">>,
    <<"https", ":", "/", "/", "example.org">>,
    <<"http", ":", "/", "/", "www.wikidata.org">> }

UrlInputs == {p \o tl : p \in UrlPrefixes, tl \in SeqsUpTo({"/", "entity", "Q42"}, MaxTail)}

ParsedUrls == {UrlParse(s).v : s \in {x \in UrlInputs : UrlParse(x).t = "ok"}}

InitRecord ==
  /\ InitProgIdle
  /\ input \in {[fn |-> "Person::new", url |-> u] : u \in ParsedUrls}
          \cup {[fn |-> "Field::new", url |-> s] : s \in UrlInputs}
  /\ output = NoValue

CallPersonNew ==
  /\ input.fn = "Person::new" /\ output = NoValue
  /\ output' = PersonNew(<<"Douglas Adams">>, <<"English author and humourist">>, input.url)
  /\ UNCHANGED <<progVars, input>>

CallFieldNew ==
  /\ input.fn = "Field::new" /\ output = NoValue
  /\ output' = FieldNew(input.url, <<"occupation">>, <<"novelist">>)
  /\ UNCHANGED <<progVars, input>>

NextRecord == CallPersonNew \/ CallFieldNew

SpecRecord == InitRecord /\ [][NextRecord]_vars

\* ---------------------------------------------------------------- record claims
\* seg is exactly what follows the last slash of path
IsLastSegmentOf(seg, path) ==
  /\ \A k \in 1..Len(seg) : seg[k] # "/"
  /\ Len(path) > Len(seg)
  /\ path[Len(path) - Len(seg)] = "/"
  /\ SubSeq(path, Len(path) - Len(seg) + 1, Len(path)) = seg

PersonBuilt == input.fn = "Person::new" /\ output.t = "ok"
FieldBuilt == input.fn = "Field::new" /\ output.t = "ok"

\* C5: every Person that Person::new produces has id equal to the last path
\* segment of its id_url, and every Field that Field::new produces has
\* label_id equal to the last path segment of its label_id_url.
C5_IdIsLastPathSegment ==
  /\ PersonBuilt =>
       /\ output.v.id_url = input.url
       /\ IsLastSegmentOf(output.v.id, output.v.id_url.path)
  /\ FieldBuilt =>
       /\ UrlParse(input.url) = Ok(output.v.label_id_url)
       /\ IsLastSegmentOf(output.v.label_id, output.v.label_id_url.path)

C5_Witness ==
  /\ PersonBuilt
  /\ UrlAsStr(input.url) = <<"https", ":", "/", "/", "example.org", "/", "entity", "/", "Q42">>
  /\ output.v.id = <<"Q42">>

\* the URL names no path segment: it has no hierarchical path, or nothing but
\* slashes in it
HasNoPathSegments(u) ==
  \/ u.path = <<>>
  \/ Head(u.path) # "/"
  \/ \A k \in 1..Len(u.path) : u.path[k] = "/"

\* C6: construction fails, producing no record, whenever the identifier URL
\* cannot be parsed or has no path segments, and no record carries an empty
\* identifier.
C6_NoRecordWithoutSegments ==
  /\ (input.fn = "Person::new" /\ output # NoValue) =>
       /\ HasNoPathSegments(input.url) => output.t # "ok"
       /\ output.t = "ok" => output.v.id # <<>>
  /\ (input.fn = "Field::new" /\ output # NoValue) =>
       /\ UrlParse(input.url).t = "err" => output.t # "ok"
       /\ (UrlParse(input.url).t = "ok" /\ HasNoPathSegments(UrlParse(input.url).v))
            => output.t # "ok"
       /\ output.t = "ok" => output.v.label_id # <<>>

\* ---------------------------------------------------------------- JSON
JNull == [t |-> "null"]
JStr(s) == [t |-> "str", s |-> s]
JArr(a) == [t |-> "arr", a |-> a]
JObj(m) == [t |-> "obj", m |-> m]

\* Value::as_object
as_object(v) == IF v.t = "obj" THEN Some(v.m) ELSE None

\* Value::as_array
as_array(v) == IF v.t = "arr" THEN Some(v.a) ELSE None

\* a conversion that yields the empty string for a non-string
as_str_or_empty(v) == IF v.t = "str" THEN Some(v.s) ELSE Some(<<>>)

\* Value::as_str
as_str(v) == IF v.t = "str" THEN Some(v.s) ELSE None

\* Value::get with a string index: None on a non-object or a missing key
get(v, key) ==
  IF v.t = "obj" /\ key \in DOMAIN v.m THEN Some(v.m[key]) ELSE None

\* the closure of get_values: four unwraps in a row
get_value(obj, name) ==
  IF as_object(obj) = None THEN Panic
  ELSE LET entry == get(obj, name)
       IN IF entry = None THEN Panic
          ELSE LET val == get(entry.v, "value")
               IN IF val = None THEN Panic
                  ELSE LET str == as_str(val.v)
                       IN IF str = None THEN Panic ELSE Ok(str.v)

\* a projection that answers in reverse
get_values_reversed(obj, names) ==
  IF \E k \in 1..Len(names) : get_value(obj, names[k]) = Panic THEN Panic
  ELSE Ok([k \in 1..Len(names) |-> get_value(obj, names[Len(names) + 1 - k]).v])

\* get_values: names.map(closure), panicking at the first failing name
get_values(obj, names) ==
  IF \E k \in 1..Len(names) : get_value(obj, names[k]) = Panic THEN Panic
  ELSE Ok([k \in 1..Len(names) |-> get_value(obj, names[k]).v])

\* ---------------------------------------------------------------- projector spec
VarNames == {"a", "b", "c"}

\* the entries a row may hold under a variable name
Entries ==
  { JObj([value |-> JStr(<<"1">>), type |-> JStr(<<"literal">>)]),
    JObj([value |-> JStr(<<"2">>)]),
    JObj([type |-> JStr(<<"literal">>)]),
    JObj([value |-> JNull]),
    JStr(<<"1">>) }

ValueRows ==
  {JNull, JStr(<<"1">>), JArr(<<>>)}
    \cup {JObj(m) : m \in UNION {[S -> Entries] : S \in SUBSET VarNames}}

InitValues ==
  /\ InitProgIdle
  /\ input \in {[fn |-> "get_values", obj |-> r, names |-> n] :
                  r \in ValueRows, n \in SeqsUpTo(VarNames, MaxNames)}
  /\ output = NoValue

CallGetValues ==
  /\ input.fn = "get_values" /\ output = NoValue
  /\ output' = get_values(input.obj, input.names)
  /\ UNCHANGED <<progVars, input>>

NextValues == CallGetValues

SpecValues == InitValues /\ [][NextValues]_vars

\* ---------------------------------------------------------------- projector claims
\* name passes the four checks on row: the row is an object, holds name, the
\* entry holds `value`, and that value is a string
PassesChecks(row, name) ==
  /\ row.t = "obj"
  /\ name \in DOMAIN row.m
  /\ row.m[name].t = "obj"
  /\ "value" \in DOMAIN row.m[name].m
  /\ row.m[name].m["value"].t = "str"

ValuesDone == input.fn = "get_values" /\ output # NoValue

\* C7: when all N requested names are present and well formed in the row,
\* get_values returns exactly N strings, the i-th being the `value` of the
\* i-th requested name: the requested order, repeated names included.
C7_ValuesInRequestedOrder ==
  (ValuesDone /\ \A k \in 1..Len(input.names) : PassesChecks(input.obj, input.names[k])) =>
    /\ output.t = "ok"
    /\ Len(output.v) = Len(input.names)
    /\ \A k \in 1..Len(input.names) :
         output.v[k] = input.obj.m[input.names[k]].m["value"].s

C7_Witness ==
  /\ ValuesDone
  /\ input.names = <<"b", "a">>
  /\ PassesChecks(input.obj, "a") /\ PassesChecks(input.obj, "b")
  /\ input.obj.m["a"].m["value"].s = <<"1">>
  /\ input.obj.m["b"].m["value"].s = <<"2">>
  /\ output = Ok(<<(<<"2">>), (<<"1">>)>>)

QDisplay(id) == <<"Q", id>>

FilterClause == " FILTER(CONTAINS(STR(?value), \"/entity/Q\"))"

InfoQueryHead(id) ==
  <<"\nSELECT DISTINCT\n  ?propID     # Ex. P734\n  ?propLabel  # Ex. family name\n  ?value      # Ex. Q351735\n  ?valueLabel # Ex. Adams\nWHERE {\n  VALUES ?target {\n    wd:">>
    \o QDisplay(id)
    \o <<"\n  }\n\n  ?target ?propID ?value.\n\n  ?prop wikibase:directClaim ?propID.\n\n  # Filters results to only those with Wikidata entries\n  # Ex. Q84 but not douglasadams",
         "\n", "  ">>

InfoQueryTail ==
  <<"\n", "\n  # Fetches the label for every ?variable, the result of which is stored in ?variableLabel\n  SERVICE wikibase:label { bd:serviceParam wikibase:language \"[AUTO_LANGUAGE],en\". }\n}\nORDER BY DESC(?propID) # Doesn't actually sort correctly because props aren't 0-padded">>

\* comment_marker = if only_wikidata_entities { "#" } else { "" }
comment_marker(only_wikidata_entities) ==
  IF only_wikidata_entities THEN <<"#">> ELSE <<>>

\* the format! of get_author_info
InfoQuery(id, only_wikidata_entities) ==
  InfoQueryHead(id) \o comment_marker(only_wikidata_entities) \o <<FilterClause>> \o InfoQueryTail

\* the prefix block make_request puts before every query
Prefixes ==
  <<"\nPREFIX wikibase: <http://wikiba.se/ontology#>\nPREFIX wd: <http://www.wikidata.org/entity/>\nPREFIX wdt: <http://www.wikidata.org/prop/direct/>\nPREFIX p: <http://www.wikidata.org/prop/>\nPREFIX ps: <http://www.wikidata.org/prop/statement/>\nPREFIX bd: <http://www.bigdata.com/rdf#>\n">>

\* ---------------------------------------------------------------- gateway
\* make_request after the call: unwrap the client, the reply and the envelope
make_request(reply) ==
  IF reply.t # "ok" THEN Panic
  ELSE IF as_object(reply.v) = None THEN Panic
  ELSE LET results == get(reply.v, "results")
       IN IF results = None THEN Panic
          ELSE LET bindings == get(results.v, "bindings")
               IN IF bindings = None THEN Panic
                  ELSE LET arr == as_array(bindings.v)
                       IN IF arr = None THEN Panic ELSE Ok(arr.v)

Binding(s) == JObj([type |-> JStr(<<"literal">>), value |-> JStr(s)])

EntityUrl == <<"http", ":", "/", "/", "www.wikidata.org", "/", "entity", "/", "Q7976944">>
PropUrl == <<"http", ":", "/", "/", "www.wikidata.org", "/", "prop", "/", "direct", "/", "P106">>

\* identifier values a row may carry: canonical, without a path, without the
\* slashes after the scheme, without a scheme, and without a hierarchy
RowUrls(canonical) ==
  { canonical,
    <<"http", ":", "/", "/", "www.wikidata.org">>,
    <<"http", ":">> \o SubSeq(canonical, 5, Len(canonical)),
    SubSeq(canonical, 5, Len(canonical)),
    <<"mailto", ":", canonical[Len(canonical)]>> }

PersonNames == {<<"William Carpenter">>, <<"Douglas Adams">>}

AuthorRows ==
  {JObj([id |-> Binding(u), name |-> Binding(n), description |-> Binding(<<"English minister">>)]) :
     u \in RowUrls(EntityUrl), n \in PersonNames}
  \cup { JNull,
         JObj([id |-> Binding(EntityUrl), name |-> Binding(<<"William Carpenter">>)]),
         JObj([id |-> Binding(EntityUrl), name |-> JObj([value |-> JNull]),
               description |-> Binding(<<"English minister">>)]) }

FieldRows ==
  {JObj([propID |-> Binding(u), propLabel |-> Binding(<<"occupation">>),
         value |-> Binding(EntityUrl), valueLabel |-> Binding(v)]) :
     u \in RowUrls(PropUrl), v \in {<<"novelist">>, <<"minister">>}}
  \cup { JNull,
         JObj([propID |-> Binding(PropUrl), propLabel |-> Binding(<<"occupation">>)]),
         JObj([propID |-> JStr(PropUrl), propLabel |-> Binding(<<"occupation">>),
               valueLabel |-> Binding(<<"novelist">>)]) }

Envelope(bindings) ==
  JObj([head |-> JObj([vars |-> JArr(<<>>)]), results |-> JObj([bindings |-> bindings])])

\* what Api::new and sparql_query may hand back for a query of the given shape
Replies(RowSet) ==
  { [t |-> "api_err"], [t |-> "sparql_err"],
    Ok(JNull), Ok(JObj([head |-> JNull])), Ok(JObj([results |-> JObj([head |-> JNull])])),
    Ok(Envelope(JNull)) }
  \cup {Ok(Envelope(JArr(r))) : r \in SeqsUpTo(RowSet, MaxRows)}

\* ---------------------------------------------------------------- row closures
\* a closure that binds the projected values in the wrong order
AuthorClosureSwapped(v) ==
  LET vals == get_values(v, <<"name", "description", "id">>)
  IN IF vals = Panic THEN Panic
     ELSE LET parsed == UrlParse(vals.v[3])
          IN IF parsed.t = "err" THEN Panic
             ELSE PersonNew(vals.v[2], vals.v[1], parsed.v)

\* the closure get_authors maps over the rows; Ok(person) or Panic
AuthorClosure(v) ==
  LET vals == get_values(v, <<"name", "description", "id">>)
  IN IF vals = Panic THEN Panic
     ELSE LET parsed == UrlParse(vals.v[3])
          IN IF parsed.t = "err" THEN Panic
             ELSE PersonNew(vals.v[1], vals.v[2], parsed.v)

\* the closure get_author_info maps over the rows; Ok(field) or Panic
FieldClosure(v) ==
  LET vals == get_values(v, <<"propID", "propLabel", "valueLabel">>)
  IN IF vals = Panic THEN Panic
     ELSE LET f == FieldNew(vals.v[1], vals.v[2], vals.v[3])
          IN IF f.t # "ok" THEN Panic ELSE f

\* ---------------------------------------------------------------- operations
SearchNames == {<<"William Carpenter">>, <<"O", "'", "Brien">>}
EntityIds == {"42", "8006577"}

Callable == pc \in {"idle", "returned"}

Start(o, a, q) ==
  /\ pc' = "request" /\ op' = o /\ args' = a /\ query' = q
  /\ rows' = <<>> /\ i' = 0 /\ acc' = <<>> /\ result' = NoValue
  /\ sent' = <<>> /\ resp' = NoValue
  /\ UNCHANGED pureVars

\* get_authors up to its call of make_request
CallGetAuthors ==
  /\ Callable
  /\ \E name \in SearchNames : Start("get_authors", [name |-> name], AuthorsQuery(name))

\* get_author_info up to its call of make_request; the flag is true when omitted
CallGetAuthorInfo ==
  /\ Callable
  /\ \E id \in EntityIds, flag \in BOOLEAN :
       Start("get_author_info", [id |-> id, only_wikidata_entities |-> flag],
             InfoQuery(id, flag))

\* make_request: prefix the query, call the gateway, unwrap the envelope
MakeRequest ==
  /\ pc = "request"
  /\ sent' = Prefixes \o query
  /\ \E reply \in Replies(IF op = "get_authors" THEN AuthorRows ELSE FieldRows) :
       /\ resp' = reply
       /\ LET r == make_request(reply)
          IN IF r = Panic
             THEN pc' = "panicked" /\ UNCHANGED <<rows, i>>
             ELSE pc' = "map" /\ rows' = r.v /\ i' = 1
  /\ UNCHANGED <<op, args, query, acc, result, pureVars>>

\* what the map does with the closure's outcome r for row i
MapRow(r) ==
  /\ IF r = Panic
     THEN pc' = "panicked" /\ acc' = <<>> /\ UNCHANGED i
     ELSE pc' = pc /\ acc' = Append(acc, r.v) /\ i' = i + 1
  /\ UNCHANGED <<op, args, query, rows, result, sent, resp, pureVars>>

\* one step of get_authors' .map(..) under collect()
MapAuthorRow ==
  /\ op = "get_authors" /\ pc = "map" /\ i <= Len(rows)
  /\ MapRow(AuthorClosure(rows[i]))

\* one step of get_author_info's .map(..) under collect()
MapFieldRow ==
  /\ op = "get_author_info" /\ pc = "map" /\ i <= Len(rows)
  /\ MapRow(FieldClosure(rows[i]))

\* collect() at the end of the rows: the Vec goes to the caller
Collect ==
  /\ pc = "map" /\ i > Len(rows)
  /\ result' = Ok(acc) /\ pc' = "returned"
  /\ UNCHANGED <<op, args, query, rows, i, acc, sent, resp, pureVars>>

Init ==
  /\ InitProgIdle
  /\ input = [fn |-> "none"] /\ output = NoValue

Next ==
  \/ CallGetAuthors
  \/ CallGetAuthorInfo
  \/ MakeRequest
  \/ MapAuthorRow
  \/ MapFieldRow
  \/ Collect

Spec == Init /\ [][Next]_vars

\* ---------------------------------------------------------------- operation claims
\* position k of q lies behind a "#" on its line
Commented(q, k) ==
  \E j \in 1..(k - 1) : q[j] = "#" /\ \A m \in j..(k - 1) : q[m] # "\n"

\* the entity filter occurs in q outside a comment
FilterActive(q) ==
  \E k \in 1..Len(q) : q[k] = FilterClause /\ ~Commented(q, k)

IsClausePart(chunk) == chunk \in {"#", FilterClause}

\* q without the filter clause and its comment marker
WithoutClause(q) == SelectSeq(q, LAMBDA chunk : ~IsClausePart(chunk))

InfoBuilt == op = "get_author_info" /\ pc # "idle"

\* C1: the fetch-by-id query built with only_wikidata_entities=true holds the
\* entity filter as an active clause, the one built with false has it absent
\* or commented out, and the two texts are identical apart from that clause.
C1_FilterActiveIffFlag ==
  InfoBuilt =>
    /\ args.only_wikidata_entities <=> FilterActive(query)
    /\ WithoutClause(query) = WithoutClause(InfoQuery(args.id, ~args.only_wikidata_entities))

\* the reply passes every unwrap of make_request
GatewayOk(reply) ==
  /\ reply.t = "ok"
  /\ reply.v.t = "obj"
  /\ "results" \in DOMAIN reply.v.m
  /\ reply.v.m["results"].t = "obj"
  /\ "bindings" \in DOMAIN reply.v.m["results"].m
  /\ reply.v.m["results"].m["bindings"].t = "arr"

\* the text under name in a row that passes the checks
ValueOf(row, name) == row.m[name].m["value"].s

\* row projects onto the three names and its identifier is a URL with a
\* hierarchical path
RowConverts(row, names, idName) ==
  /\ \A k \in 1..Len(names) : PassesChecks(row, names[k])
  /\ LET parsed == UrlParse(ValueOf(row, idName))
     IN /\ parsed.t = "ok"
        /\ parsed.v.path # <<>>
        /\ Head(parsed.v.path) = "/"

RowGood(row) ==
  IF op = "get_authors"
  THEN RowConverts(row, <<"name", "description", "id">>, "id")
  ELSE RowConverts(row, <<"propID", "propLabel", "valueLabel">>, "propID")

\* C9: for get_authors and get_author_info alike, when the gateway call fails
\* or any row fails projection or construction, at any position, the operation
\* ends in failure and the caller receives no records; records are returned
\* only when every row was converted.
C9_NoPartialResult ==
  /\ pc = "panicked" => result = NoValue /\ acc = <<>>
  /\ result # NoValue => pc = "returned"
  /\ pc \in {"map", "returned"} =>
       /\ GatewayOk(resp)
       /\ rows = resp.v.m["results"].m["bindings"].a
       /\ \A k \in 1..(i - 1) : RowGood(rows[k])
  /\ pc = "returned" =>
       /\ Len(result.v) = Len(rows)
       /\ \A k \in 1..Len(rows) : RowGood(rows[k])

C9_Witness ==
  /\ pc = "panicked" /\ op = "get_author_info"
  /\ Len(rows) = 2 /\ i = 2
  /\ RowGood(rows[1]) /\ ~RowGood(rows[2])
  /\ result = NoValue

AuthorsReturned == pc = "returned" /\ op = "get_authors"

IsNormalised(s) ==
  /\ Len(s) >= 6
  /\ s[2] = ":" /\ s[3] = "/" /\ s[4] = "/" /\ s[5] # "/" /\ s[6] = "/"

====
